---- MODULE Spec2Model ----
(***************************************************************************)
(* Model of the correction-state engine of src/perfecttense.js: the job    *)
(* metadata pass (setMetaData), the token utilities (tokensArePresent,     *)
(* replaceTokens, tokensToString), the library-level accept / reject /     *)
(* reset operations and the interactive editor built on top of them.       *)
(*                                                                         *)
(* A token is identified by its id (a natural number); its immutable value *)
(* and after strings are TokenValue(id) and TokenAfter(id).                *)
(* Sequences are 1-based here; the index fields the code                   *)
(* assigns (sentenceIndex, indexInSentence, transformIndex, groupId) keep  *)
(* their 0-based JavaScript values.                                        *)
(***************************************************************************)
EXTENDS Integers, Sequences, FiniteSets, TLC

VARIABLES
    data,        \* the job result: [rulesApplied, hasMeta]
    lastCall,    \* the last library/editor call: [op, s, i, ret]
    preAccept,   \* activeTokens of the sentence just before the last successful accept
    editor,      \* the interactive editor: [open, transformStack, transStackSize, allAvailableTransforms]
    pt,          \* the client object: appKey, verbose, persist
    saved,       \* the requests the last call submitted through saveTransformStatus
    loop         \* the loop of the editor that is executing: [op, ignoreSuggestions, turn]

vars == <<data, lastCall, preAccept, editor, pt, saved, loop>>

---------------------------------------------------------------------------
(* Bounds of the model *)

\* number of tokens of every original sentence
NumOrig == 2
\* largest number of transformations of a job (over all its sentences)
MaxTransforms == 3
\* largest number of sentences of a job
MaxSentences == 2
\* longest tokensAffected run of a transformation
MaxAffected == 2
\* longest tokensAdded run of a transformation
MaxAdded == 1
\* largest history stack of the editor the model follows
MaxStack == 3
\* largest history stack at which a session with applyAll still accepts or rejects a
\* single transformation
MaxManual == 1
\* most transformations of a job whose status requests are followed to their outcome
MaxPersisted == 2
\* largest token id, longest token stream and longest run the token utilities are
\* applied to
MaxTokenId == 4
MaxStream == 3
MaxRun == 3

---------------------------------------------------------------------------
(* Program constants *)

TRANSFORM_STATUS_ACCEPTED == "accept"
TRANSFORM_STATUS_REJECTED == "reject"
TRANSFORM_STATUS_CLEAN == "clean"

\* a JavaScript field that has not been assigned (a number field)
UNDEFINED == 0 - 1

---------------------------------------------------------------------------
(* Tokens and their text *)

\* the value and after strings of the tokens of the sentence "hzve be befor" and of its
\* corrections: 1 2 3 are the original tokens, 11 is added by the first transformation,
\* 21 22 by the second, 31 by the third
Words ==
    (1 :> "hzve") @@ (2 :> "be") @@ (3 :> "befor") @@ (11 :> "have")
        @@ (21 :> "has") @@ (22 :> "been") @@ (31 :> "before")

Letter == <<"a", "b", "c", "d", "e", "f", "g", "h", "i", "j">>

\* token.value: the text of the token
TokenValue(id) ==
    IF id \in DOMAIN Words THEN Words[id]
    ELSE IF id % 2 = 1 THEN Letter[1 + (id % 10)] \o Letter[1 + (id % 10)]
    ELSE Letter[1 + (id % 10)]

\* token.after: the white space following the token
TokenAfter(id) ==
    IF id \in DOMAIN Words THEN (IF id \in {3, 31} THEN "" ELSE " ")
    ELSE IF id % 3 = 0 THEN "" ELSE " "

RECURSIVE tokensToString(_)
tokensToString(tokens) ==
    IF tokens = <<>> THEN ""
    ELSE TokenValue(Head(tokens)) \o TokenAfter(Head(tokens)) \o tokensToString(Tail(tokens))

\* Array.prototype.findIndex on token ids: the first 1-based position of id, 0 if none
\* (the code's -1)
RECURSIVE findIndexFrom(_, _, _)
findIndexFrom(allTokens, id, k) ==
    IF k > Len(allTokens) THEN 0
    ELSE IF allTokens[k] = id THEN k
    ELSE findIndexFrom(allTokens, id, k + 1)

findIndex(allTokens, id) == findIndexFrom(allTokens, id, 1)

\* the every() loop accepting every later position, not only the next one
RECURSIVE tokensEveryWithGaps(_, _, _, _)
tokensEveryWithGaps(tokens, allTokens, k, lastIndex) ==
    IF k > Len(tokens) THEN TRUE
    ELSE LET indexOfId == findIndex(allTokens, tokens[k])
         IN  IF indexOfId # 0 /\ (lastIndex = 0 \/ indexOfId > lastIndex)
             THEN tokensEveryWithGaps(tokens, allTokens, k + 1, indexOfId)
             ELSE FALSE

\* the every() loop of tokensArePresent, from token k on, lastIndex being 0 for the
\* code's -1
RECURSIVE tokensEvery(_, _, _, _)
tokensEvery(tokens, allTokens, k, lastIndex) ==
    IF k > Len(tokens) THEN TRUE
    ELSE LET indexOfId == findIndex(allTokens, tokens[k])
         IN  IF indexOfId # 0 /\ (lastIndex = 0 \/ indexOfId = lastIndex + 1)
             THEN tokensEvery(tokens, allTokens, k + 1, indexOfId)
             ELSE FALSE

tokensArePresent(tokens, allTokens) == tokensEvery(tokens, allTokens, 1, 0)

\* replaceTokens without its test of tokensArePresent
replaceTokensUnchecked(tokens, affected, added) ==
    LET startInd == findIndex(tokens, affected[1])
        endInd == findIndex(tokens, affected[Len(affected)])
    IN  IF startInd # 0 /\ endInd # 0 /\ endInd >= startInd
        THEN SubSeq(tokens, 1, startInd - 1) \o added
                 \o SubSeq(tokens, endInd + 1, Len(tokens))
        ELSE tokens

\* replaceTokens is only called with a non-empty affected run in this model
replaceTokens(tokens, affected, added) ==
    IF ~tokensArePresent(affected, tokens) THEN tokens
    ELSE LET startInd == findIndex(tokens, affected[1])
             endInd == findIndex(tokens, affected[Len(affected)])
         IN  IF startInd # 0 /\ endInd # 0 /\ endInd >= startInd
             THEN SubSeq(tokens, 1, startInd - 1) \o added
                      \o SubSeq(tokens, endInd + 1, Len(tokens))
             ELSE tokens

---------------------------------------------------------------------------
(* The job results the service can return *)

\* a transformation as it arrives: no metadata yet
RawTransform(affected, added, suggestion, st) ==
    [tokensAffected |-> affected, tokensAdded |-> added,
     hasReplacement |-> added # <<>>, isSuggestion |-> suggestion,
     status |-> st, isAvailable |-> FALSE, groupId |-> UNDEFINED,
     transformIndex |-> UNDEFINED, indexInSentence |-> UNDEFINED,
     sentenceIndex |-> UNDEFINED]

OriginalTokens == [j \in 1..NumOrig |-> j]

\* the ids of the tokens the k-th transformation of a sentence adds: new in the sentence
AddedIds(k, m) == [j \in 1..m |-> 10 * k + j]

\* the contiguous runs of a token stream a transformation may affect
Runs(stream) ==
    { SubSeq(stream, a, b) : <<a, b>> \in
        { p \in (1..Len(stream)) \X (1..Len(stream)) :
            p[1] <= p[2] /\ p[2] - p[1] < MaxAffected } }

\* the token streams the pipeline can be in after the first k transformations of ts,
\* each of them made or not
RECURSIVE ReachStreams(_, _)
ReachStreams(ts, k) ==
    IF k = 0 THEN {OriginalTokens}
    ELSE LET prev == ReachStreams(ts, k - 1)
         IN  prev \cup { replaceTokens(st, ts[k].tokensAffected, ts[k].tokensAdded) :
                           st \in { x \in prev : ts[k].hasReplacement } }

\* the lists of k transformations of one sentence, in the order the service made them:
\* each affects a non-empty run of a stream its predecessors can produce (so none
\* depends on a later one; several may affect the same tokens, as transformsOverlap and
\* affectsSameTokens expect), adds tokens with ids new in the sentence, and has a
\* replacement exactly when it adds tokens
RECURSIVE TransformLists(_)
TransformLists(k) ==
    IF k = 0 THEN {<<>>}
    ELSE UNION { { Append(ts, RawTransform(a, AddedIds(k, m), FALSE, "")) :
                     a \in UNION { Runs(st) : st \in ReachStreams(ts, k - 1) },
                     m \in 0..MaxAdded } :
                 ts \in TransformLists(k - 1) }

RawSentence(ts) ==
    [originalSentence |-> OriginalTokens, activeTokens |-> <<>>,
     transformations |-> ts, groups |-> <<>>, sentenceIndex |-> UNDEFINED]

\* the jobs of n sentences with exactly k transformations in all, at least one in
\* every sentence
RECURSIVE Jobs(_, _)
Jobs(n, k) ==
    IF n = 0 THEN (IF k = 0 THEN {<<>>} ELSE {})
    ELSE UNION { { Append(job, RawSentence(ts)) :
                     job \in Jobs(n - 1, k - j), ts \in TransformLists(j) } :
                 j \in 1..k }

AllJobs == UNION { Jobs(n, k) : <<n, k>> \in (1..MaxSentences) \X (1..MaxTransforms) }

---------------------------------------------------------------------------
(* Transformation predicates *)

isClean(transform) == transform.status = TRANSFORM_STATUS_CLEAN
isAccepted(transform) == transform.status = TRANSFORM_STATUS_ACCEPTED
isRejected(transform) == transform.status = TRANSFORM_STATUS_REJECTED

canMakeTransform(sentence, transform) ==
    tokensArePresent(transform.tokensAffected, sentence.activeTokens)

canUndoTransform(sentence, transform) ==
    \/ ~transform.hasReplacement
    \/ isAccepted(transform) /\ tokensArePresent(transform.tokensAdded, sentence.activeTokens)
    \/ isRejected(transform) /\ tokensArePresent(transform.tokensAffected, sentence.activeTokens)

\* arraysOverlap with compareTokens: some token id of a1 is a token id of a2
arraysOverlap(a1, a2) ==
    \E x \in DOMAIN a1 : \E y \in DOMAIN a2 : a1[x] = a2[y]

\* transformsOverlap looking at the tokensAffected of the two transformations only
transformsOverlapAffectedOnly(t1, t2, inOrder) ==
    arraysOverlap(t1.tokensAffected, t2.tokensAffected)

transformsOverlap(t1, t2, inOrder) ==
    \/ arraysOverlap(t1.tokensAffected, t2.tokensAffected)
    \/ arraysOverlap(t1.tokensAdded, t2.tokensAffected)
    \/ ~inOrder /\ arraysOverlap(t2.tokensAdded, t1.tokensAffected)

---------------------------------------------------------------------------
(* Availability and the token splice of one sentence.  A transformation of a
   sentence is named by its 1-based position in sentence.transformations;
   sentence.groups maps a group id to the positions of its members. *)

\* setIsAvailable over the transformations at the positions of the sequence transforms
setIsAvailable(transforms, sentence) ==
    [sentence EXCEPT !.transformations =
        [k \in DOMAIN sentence.transformations |->
            IF \E x \in DOMAIN transforms : transforms[x] = k
            THEN [sentence.transformations[k] EXCEPT
                     !.isAvailable = canMakeTransform(sentence, sentence.transformations[k])]
            ELSE sentence.transformations[k]]]

\* sentence.groups[transform.groupId] is an array (else setIsAvailable throws a TypeError)
groupIsCached(sentence, i) ==
    sentence.transformations[i].groupId \in DOMAIN sentence.groups

getOverlappingGroup(sentence, i) == sentence.groups[sentence.transformations[i].groupId]

updateTokenGroup(sentence, i) ==
    setIsAvailable(getOverlappingGroup(sentence, i), sentence)

setAvailableFlag(sentence, i, flag) ==
    [sentence EXCEPT !.transformations[i].isAvailable = flag]

\* makeTransform without updateTokenGroup: the group's flags are left as they were
makeTransformNoRefresh(sentence, i) ==
    LET transform == sentence.transformations[i]
        replaced == [sentence EXCEPT !.activeTokens =
                        replaceTokens(sentence.activeTokens, transform.tokensAffected,
                                      transform.tokensAdded)]
    IN  IF transform.hasReplacement
        THEN setAvailableFlag(replaced, i, FALSE)
        ELSE setAvailableFlag(sentence, i, FALSE)

makeTransform(sentence, i) ==
    LET transform == sentence.transformations[i]
        replaced == [sentence EXCEPT !.activeTokens =
                        replaceTokens(sentence.activeTokens, transform.tokensAffected,
                                      transform.tokensAdded)]
    IN  IF transform.hasReplacement
        THEN setAvailableFlag(updateTokenGroup(replaced, i), i, FALSE)
        ELSE setAvailableFlag(sentence, i, FALSE)

undoTransform(sentence, i) ==
    LET transform == sentence.transformations[i]
        replaced == [sentence EXCEPT !.activeTokens =
                        replaceTokens(sentence.activeTokens, transform.tokensAdded,
                                      transform.tokensAffected)]
    IN  IF transform.hasReplacement
        THEN setAvailableFlag(updateTokenGroup(replaced, i), i, TRUE)
        ELSE setAvailableFlag(sentence, i, TRUE)

\* the state a TypeError in updateTokenGroup leaves behind: the splice is done, the
\* flags and the status are not
spliceOnly(sentence, affected, added) ==
    [sentence EXCEPT !.activeTokens = replaceTokens(sentence.activeTokens, affected, added)]

\* updateActiveTokens replaying every transformation that is not clean
updateActiveTokensDecided(sentence, i) ==
    LET transform == sentence.transformations[i]
    IN  IF transform.hasReplacement /\ ~isClean(transform)
        THEN [sentence EXCEPT !.activeTokens =
                 replaceTokens(sentence.activeTokens, transform.tokensAffected,
                               transform.tokensAdded)]
        ELSE sentence

updateActiveTokens(sentence, i) ==
    LET transform == sentence.transformations[i]
    IN  IF transform.hasReplacement /\ isAccepted(transform)
        THEN [sentence EXCEPT !.activeTokens =
                 replaceTokens(sentence.activeTokens, transform.tokensAffected,
                               transform.tokensAdded)]
        ELSE sentence

---------------------------------------------------------------------------
(* setMetaData *)

\* the scan of the later transformations without its test of transformsOverlap
RECURSIVE scanLaterUngrouped(_, _, _)
scanLaterUngrouped(sentence, member, from) ==
    IF from > Len(sentence.transformations) THEN <<>>
    ELSE (IF sentence.transformations[from].groupId = UNDEFINED
          THEN <<from>> ELSE <<>>) \o scanLaterUngrouped(sentence, member, from + 1)

\* the positions after position from (in sentence order) of the transformations that
\* have no group yet and overlap the transformation at position member
RECURSIVE scanLater(_, _, _)
scanLater(sentence, member, from) ==
    IF from > Len(sentence.transformations) THEN <<>>
    ELSE (IF /\ sentence.transformations[from].groupId = UNDEFINED
             /\ transformsOverlap(sentence.transformations[member],
                                  sentence.transformations[from], TRUE)
          THEN <<from>> ELSE <<>>) \o scanLater(sentence, member, from + 1)

\* the breadth-first loop without its test "nextInGroup.groupId == undefined": a
\* transformation queued by two members of the group is added to the group twice
RECURSIVE groupSearchNoRecheck(_, _, _)
groupSearchNoRecheck(sentence, groupQueue, groupId) ==
    IF groupQueue = <<>> THEN sentence
    ELSE LET nextInGroup == Head(groupQueue)
             first == sentence.transformations[nextInGroup].indexInSentence + 2
             marked == [sentence EXCEPT
                          !.transformations =
                              [k \in DOMAIN sentence.transformations |->
                                  IF k = nextInGroup
                                  THEN [sentence.transformations[k] EXCEPT !.groupId = groupId]
                                  ELSE IF k >= first
                                  THEN [sentence.transformations[k] EXCEPT
                                           !.indexInSentence = k - 1]
                                  ELSE sentence.transformations[k]],
                          !.groups[groupId] = Append(sentence.groups[groupId], nextInGroup)]
         IN  groupSearchNoRecheck(marked,
                                  Tail(groupQueue) \o scanLater(marked, nextInGroup, first),
                                  groupId)

\* the breadth-first loop "while (groupQueue.length > 0)" of setMetaData
RECURSIVE groupSearch(_, _, _)
groupSearch(sentence, groupQueue, groupId) ==
    IF groupQueue = <<>> THEN sentence
    ELSE LET nextInGroup == Head(groupQueue)
             first == sentence.transformations[nextInGroup].indexInSentence + 2
             marked == [sentence EXCEPT
                          !.transformations =
                              [k \in DOMAIN sentence.transformations |->
                                  IF k = nextInGroup
                                  THEN [sentence.transformations[k] EXCEPT !.groupId = groupId]
                                  ELSE IF k >= first
                                  THEN [sentence.transformations[k] EXCEPT
                                           !.indexInSentence = k - 1]
                                  ELSE sentence.transformations[k]],
                          !.groups[groupId] = Append(sentence.groups[groupId], nextInGroup)]
         IN  IF sentence.transformations[nextInGroup].groupId = UNDEFINED
             THEN groupSearch(marked,
                              Tail(groupQueue) \o scanLater(marked, nextInGroup, first),
                              groupId)
             ELSE groupSearch(sentence, Tail(groupQueue), groupId)

\* sentence.groups[groupId] = []
newGroup(sentence, groupId) ==
    [sentence EXCEPT !.groups =
        [g \in DOMAIN sentence.groups \cup {groupId} |->
            IF g = groupId THEN <<>> ELSE sentence.groups[g]]]

\* the body of sentence.transformations.forEach of setMetaData, from position k on
RECURSIVE forEachTransform(_, _, _, _)
forEachTransform(sentence, k, groupIdCounter, transformCounter) ==
    IF k > Len(sentence.transformations) THEN sentence
    ELSE LET old == sentence.transformations[k]
             indexed == [sentence EXCEPT !.transformations[k] =
                           [old EXCEPT !.transformIndex = transformCounter,
                                       !.indexInSentence = k - 1,
                                       !.sentenceIndex = sentence.sentenceIndex,
                                       !.status = IF old.status = ""
                                                  THEN TRANSFORM_STATUS_CLEAN
                                                  ELSE old.status]]
             replayed == updateActiveTokens(indexed, k)
         IN  IF old.groupId = UNDEFINED
             THEN forEachTransform(
                      groupSearch(newGroup(replayed, groupIdCounter), <<k>>, groupIdCounter),
                      k + 1, groupIdCounter + 1, transformCounter + 1)
             ELSE forEachTransform(replayed, k + 1, groupIdCounter, transformCounter + 1)

allPositions(sentence) == [k \in DOMAIN sentence.transformations |-> k]

setSentenceMetaData(sentence, sentenceIndex, transformCounter) ==
    LET start == [sentence EXCEPT !.activeTokens = sentence.originalSentence,
                                  !.sentenceIndex = sentenceIndex,
                                  !.groups = <<>>]
        done == forEachTransform(start, 1, 0, transformCounter)
    IN  setIsAvailable(allPositions(done), done)

\* the transformCounter of setMetaData incremented once for every sentence
transformsBeforeBySentence(rulesApplied, s) == s - 1

\* the number of transformations of the sentences before sentence s
RECURSIVE transformsBefore(_, _)
transformsBefore(rulesApplied, s) ==
    IF s <= 1 THEN 0
    ELSE transformsBefore(rulesApplied, s - 1) + Len(rulesApplied[s - 1].transformations)

setMetaData(d) ==
    [rulesApplied |->
        [s \in DOMAIN d.rulesApplied |->
            setSentenceMetaData(d.rulesApplied[s], s - 1, transformsBefore(d.rulesApplied, s))],
     hasMeta |-> TRUE]

---------------------------------------------------------------------------
(* The library operations on a job result d.  The transformation is named by the
   1-based position s of its sentence in d.rulesApplied and its 1-based position i in
   the sentence; the code finds the sentence through transform.sentenceIndex.  Each
   operation yields the job result it leaves, what it returns: "true", "false", or
   "throw" when updateTokenGroup finds no cached group, and the payloads it handed to
   saveTransformStatus. *)

transformAt(d, s, i) == d.rulesApplied[s].transformations[i]

sentenceOf(d, s, i) == d.rulesApplied[transformAt(d, s, i).sentenceIndex + 1]

\* data.rulesApplied[transform.sentenceIndex] after the call, with the new status
withSentence(d, s, i, sentence, status) ==
    [d EXCEPT !.rulesApplied[transformAt(d, s, i).sentenceIndex + 1] =
        [sentence EXCEPT !.transformations[i].status = status]]

\* the text of tokens without the white space after each of them
RECURSIVE valuesToString(_)
valuesToString(tokens) ==
    IF tokens = <<>> THEN ""
    ELSE TokenValue(Head(tokens)) \o valuesToString(Tail(tokens))

\* getTransformOffsetHelper counting token.value only
getTransformOffsetHelperValuesOnly(transform, activeTokens) ==
    LET at == findIndex(activeTokens, transform.tokensAffected[1])
    IN  IF at = 0 THEN 0 - 1
        ELSE Len(valuesToString(SubSeq(activeTokens, 1, at - 1)))

\* the character offset of the first affected token of transform in activeTokens, -1
\* if no active token has its id
getTransformOffsetHelper(transform, activeTokens) ==
    LET at == findIndex(activeTokens, transform.tokensAffected[1])
    IN  IF at = 0 THEN 0 - 1
        ELSE Len(tokensToString(SubSeq(activeTokens, 1, at - 1)))

getTransformOffset(d, s, i) ==
    LET transform == transformAt(d, s, i)
        sentence == sentenceOf(d, s, i)
    IN  IF canMakeTransform(sentence, transform)
        THEN getTransformOffsetHelper(transform, sentence.activeTokens)
        ELSE 0 - 1

getCurrentSentenceText(sentence) == tokensToString(sentence.activeTokens)

\* JavaScript values of the types the offset functions can return
JsNumber(n) == [type |-> "number", number |-> n]
JsObject(sentence) == [type |-> "object", sentenceIndex |-> sentence.sentenceIndex]
JsString(str) == [type |-> "string", string |-> str]
JsUndefined == [type |-> "undefined"]
JsNaN == [type |-> "NaN"]

\* the + of JavaScript on a value and a number: addition of two numbers, NaN for
\* undefined, string concatenation for an object
jsPlus(a, n) ==
    IF a.type = "number" THEN JsNumber(a.number + n)
    ELSE IF a.type = "undefined" THEN JsNaN
    ELSE JsString("[object Object]" \o ToString(n))

\* Array.prototype.find of getSentenceOffset from position k on: the position of the
\* first sentence whose index in rulesApplied is sentenceIndex, 0 if none
RECURSIVE findSentence(_, _, _)
findSentence(d, sentenceIndex, k) ==
    IF k > Len(d.rulesApplied) THEN 0
    ELSE IF k - 1 = sentenceIndex THEN k
    ELSE findSentence(d, sentenceIndex, k + 1)

\* getSentenceOffset returns what find returns: the sentence found
getSentenceOffset(d, sentence) ==
    LET k == findSentence(d, sentence.sentenceIndex, 1)
    IN  IF k = 0 THEN JsUndefined ELSE JsObject(d.rulesApplied[k])

\* editor.getTransformDocumentOffset
getTransformDocumentOffset(d, s, i) ==
    jsPlus(getSentenceOffset(d, sentenceOf(d, s, i)), getTransformOffset(d, s, i))

\* the client object as the module creates it
ModuleDefaults == [appKey |-> "", verbose |-> TRUE, persist |-> TRUE]

\* the config objects an application passes to initialize; an option the application
\* omits is a field the config does not have
Configs ==
    { [appKey |-> "app"],
      [appKey |-> "app", verbose |-> TRUE, persist |-> TRUE],
      [appKey |-> "app", verbose |-> FALSE, persist |-> FALSE] }

\* pt.initialize(config): appKey is defaulted, verbose and persist are copied from the
\* config as they are, so an omitted one is undefined afterwards (here: absent)
initialize(config) ==
    [f \in {"appKey"} \cup (DOMAIN config \cap {"verbose", "persist"}) |->
        IF f = "appKey"
        THEN (IF "appKey" \in DOMAIN config /\ config.appKey # "" THEN config.appKey ELSE "")
        ELSE config[f]]

\* canPersist returns pt.persist, which the callers test for truthiness
canPersist == "persist" \in DOMAIN pt /\ pt.persist

\* submitToPT: the request handed to axios and the promise axios returns for it
submitToPT(payload, endPoint) ==
    [endPoint |-> endPoint, payload |-> payload, appAuthorization |-> pt.appKey,
     promise |-> "pending"]

\* the request saveTransformStatus submits to /updateStatus for the transformation at
\* s, i of d; the promise of submitToPT is not returned to the caller
saveTransformStatus(d, s, i, sentenceText, offset) ==
    submitToPT([sentenceIndex |-> transformAt(d, s, i).sentenceIndex,
                transformIndex |-> transformAt(d, s, i).indexInSentence,
                sentence |-> sentenceText, offset |-> offset,
                status |-> transformAt(d, s, i).status],
               "/updateStatus")

\* "if (canPersist()) saveTransformStatus(...)" without the test of canPersist
persistStatusAlways(after, s, i, sentenceText, offset) ==
    <<saveTransformStatus(after, s, i, sentenceText, offset)>>

\* "if (canPersist()) saveTransformStatus(...)" on the job result after the call
persistStatus(after, s, i, sentenceText, offset) ==
    IF canPersist THEN <<saveTransformStatus(after, s, i, sentenceText, offset)>> ELSE <<>>

\* acceptCorrection setting the status before it looks at isAvailable
acceptCorrectionMarking(d, s, i) ==
    LET transform == transformAt(d, s, i)
        sentence == sentenceOf(d, s, i)
        prevText == getCurrentSentenceText(sentence)
        offset == getTransformOffset(d, s, i)
        after == withSentence(d, s, i, makeTransform(sentence, i), TRANSFORM_STATUS_ACCEPTED)
    IN  IF ~transform.isAvailable
        THEN [data |-> withSentence(d, s, i, sentence, TRANSFORM_STATUS_ACCEPTED),
              ret |-> "false", saved |-> <<>>]
        ELSE IF transform.hasReplacement /\ ~groupIsCached(sentence, i)
        THEN [data |-> withSentence(d, s, i,
                          spliceOnly(sentence, transform.tokensAffected, transform.tokensAdded),
                          transform.status),
              ret |-> "throw", saved |-> <<>>]
        ELSE [data |-> after, ret |-> "true",
              saved |-> persistStatus(after, s, i, prevText, offset)]

acceptCorrection(d, s, i) ==
    LET transform == transformAt(d, s, i)
        sentence == sentenceOf(d, s, i)
        prevText == getCurrentSentenceText(sentence)
        offset == getTransformOffset(d, s, i)
        after == withSentence(d, s, i, makeTransform(sentence, i), TRANSFORM_STATUS_ACCEPTED)
    IN  IF ~transform.isAvailable THEN [data |-> d, ret |-> "false", saved |-> <<>>]
        ELSE IF transform.hasReplacement /\ ~groupIsCached(sentence, i)
        THEN [data |-> withSentence(d, s, i,
                          spliceOnly(sentence, transform.tokensAffected, transform.tokensAdded),
                          transform.status),
              ret |-> "throw", saved |-> <<>>]
        ELSE [data |-> after, ret |-> "true",
              saved |-> persistStatus(after, s, i, prevText, offset)]

\* rejectCorrection refreshing the group of the transformation, as an accept does
rejectCorrectionRefreshing(d, s, i) ==
    LET transform == transformAt(d, s, i)
        sentence == sentenceOf(d, s, i)
        prevText == getCurrentSentenceText(sentence)
        offset == getTransformOffset(d, s, i)
        after == withSentence(d, s, i,
                              setAvailableFlag(updateTokenGroup(sentence, i), i, FALSE),
                              TRANSFORM_STATUS_REJECTED)
    IN  IF ~transform.isAvailable THEN [data |-> d, ret |-> "false", saved |-> <<>>]
        ELSE [data |-> after, ret |-> "true",
              saved |-> persistStatus(after, s, i, prevText, offset)]

rejectCorrection(d, s, i) ==
    LET transform == transformAt(d, s, i)
        sentence == sentenceOf(d, s, i)
        prevText == getCurrentSentenceText(sentence)
        offset == getTransformOffset(d, s, i)
        after == withSentence(d, s, i, setAvailableFlag(sentence, i, FALSE),
                              TRANSFORM_STATUS_REJECTED)
    IN  IF ~transform.isAvailable THEN [data |-> d, ret |-> "false", saved |-> <<>>]
        ELSE [data |-> after, ret |-> "true",
              saved |-> persistStatus(after, s, i, prevText, offset)]

resetCorrection(d, s, i) ==
    LET transform == transformAt(d, s, i)
        sentence == sentenceOf(d, s, i)
        after == withSentence(d, s, i, undoTransform(sentence, i), TRANSFORM_STATUS_CLEAN)
    IN  IF ~canUndoTransform(sentence, transform)
        THEN [data |-> d, ret |-> "false", saved |-> <<>>]
        ELSE IF transform.hasReplacement /\ ~groupIsCached(sentence, i)
        THEN [data |-> withSentence(d, s, i,
                          spliceOnly(sentence, transform.tokensAdded, transform.tokensAffected),
                          transform.status),
              ret |-> "throw", saved |-> <<>>]
        ELSE [data |-> after, ret |-> "true",
              saved |-> persistStatus(after, s, i,
                                      getCurrentSentenceText(sentenceOf(after, s, i)),
                                      getTransformOffset(after, s, i))]

---------------------------------------------------------------------------
(* The interactive editor *)

\* the transformations of the sentences from s on, flattened, as <<sentence, position>>
RECURSIVE flattenFrom(_, _)
flattenFrom(d, s) ==
    IF s > Len(d.rulesApplied) THEN <<>>
    ELSE [k \in DOMAIN d.rulesApplied[s].transformations |-> <<s, k>>] \o flattenFrom(d, s + 1)

flattenedTransforms(d) == flattenFrom(d, 1)

isOffered(d, ref, ignoreNoReplacement) ==
    /\ transformAt(d, ref[1], ref[2]).isAvailable
    /\ (~ignoreNoReplacement \/ transformAt(d, ref[1], ref[2]).hasReplacement)

\* updateAvailableCache without the test of ignoreNoReplacement
availableCacheUnfiltered(d, ignoreNoReplacement) ==
    LET keep(ref) == transformAt(d, ref[1], ref[2]).isAvailable
    IN  SelectSeq(flattenedTransforms(d), keep)

\* updateAvailableCache: the value it gives allAvailableTransforms
availableCache(d, ignoreNoReplacement) ==
    LET keep(ref) == isOffered(d, ref, ignoreNoReplacement)
    IN  SelectSeq(flattenedTransforms(d), keep)

\* the stack the editor starts with: the transformations that are not clean
initialStack(d) ==
    LET decided(ref) == ~isClean(transformAt(d, ref[1], ref[2]))
    IN  SelectSeq(flattenedTransforms(d), decided)

ClosedEditor ==
    [open |-> FALSE, ignoreNoReplacement |-> FALSE, transformStack |-> <<>>,
     transStackSize |-> 0, allAvailableTransforms |-> <<>>]

interactiveEditor(d, ignoreNoReplacement) ==
    LET meta == IF ~d.hasMeta THEN setMetaData(d) ELSE d
    IN  [data |-> meta,
         editor |-> [open |-> TRUE, ignoreNoReplacement |-> ignoreNoReplacement,
                     transformStack |-> initialStack(meta),
                     transStackSize |-> Len(initialStack(meta)),
                     allAvailableTransforms |-> availableCache(meta, ignoreNoReplacement)]]

\* the push without updateAvailableCache()
pushedStaleCache(e, d, ref) ==
    [e EXCEPT !.transformStack = Append(e.transformStack, ref),
              !.transStackSize = e.transStackSize + 1]

\* what editor.acceptCorrection and editor.rejectCorrection do once the library call
\* returned true
pushed(e, d, ref) ==
    [e EXCEPT !.allAvailableTransforms = availableCache(d, e.ignoreNoReplacement),
              !.transformStack = Append(e.transformStack, ref),
              !.transStackSize = e.transStackSize + 1]

\* the pop without updateAvailableCache()
poppedStaleCache(e, d) ==
    [e EXCEPT !.transformStack = SubSeq(e.transformStack, 1, Len(e.transformStack) - 1),
              !.transStackSize = e.transStackSize - 1]

\* what editor.undoLastTransform does once resetCorrection returned true
popped(e, d) ==
    [e EXCEPT !.allAvailableTransforms = availableCache(d, e.ignoreNoReplacement),
              !.transformStack = SubSeq(e.transformStack, 1, Len(e.transformStack) - 1),
              !.transStackSize = e.transStackSize - 1]

---------------------------------------------------------------------------
(* The state machine *)

NoCall == [op |-> "none", s |-> 0, i |-> 0, ret |-> "none"]

\* no loop of the editor is executing; turn is the parity of the number of iterations
\* the executing loop has made
NoLoop == [op |-> "none", ignoreSuggestions |-> FALSE, turn |-> 0]

Call(op, s, i, ret) == [op |-> op, s |-> s, i |-> i, ret |-> ret]

\* an editor call that returned false is recorded without its transformation
EditorCall(op, s, i, ret) ==
    IF ret = "false" THEN Call(op, 0, 0, ret) ELSE Call(op, s, i, ret)

Refs == { <<s, i>> \in (1..MaxSentences) \X (1..MaxTransforms) :
            s <= Len(data.rulesApplied) /\ i <= Len(data.rulesApplied[s].transformations) }

\* a job result as the service returned it
Init ==
    /\ data \in { [rulesApplied |-> job, hasMeta |-> FALSE] : job \in AllJobs }
    /\ lastCall = NoCall
    /\ preAccept = <<>>
    /\ editor = ClosedEditor
    /\ pt = ModuleDefaults
    /\ saved = <<>>
    /\ loop = NoLoop

\* pt.setMetaData(data), called once on a fresh result
SetMetaData ==
    /\ ~data.hasMeta
    /\ data' = setMetaData(data)
    /\ lastCall' = Call("setMetaData", 0, 0, "none")
    /\ preAccept' = <<>>
    /\ saved' = <<>>
    /\ UNCHANGED <<editor, pt, loop>>

\* pt.acceptCorrection(data, transform)
AcceptCorrection(s, i) ==
    /\ data.hasMeta
    /\ \E r \in { acceptCorrection(data, s, i) } :
           /\ data' = r.data
           /\ lastCall' = Call("accept", s, i, r.ret)
           /\ preAccept' = IF r.ret = "true" THEN sentenceOf(data, s, i).activeTokens ELSE <<>>
           /\ saved' = r.saved
    /\ UNCHANGED <<editor, pt, loop>>

\* pt.rejectCorrection(data, transform)
RejectCorrection(s, i) ==
    /\ data.hasMeta
    /\ \E r \in { rejectCorrection(data, s, i) } :
           /\ data' = r.data
           /\ lastCall' = Call("reject", s, i, r.ret)
           /\ saved' = r.saved
    /\ preAccept' = <<>>
    /\ UNCHANGED <<editor, pt, loop>>

\* pt.resetCorrection(data, transform)
ResetCorrection(s, i) ==
    /\ data.hasMeta
    /\ \E r \in { resetCorrection(data, s, i) } :
           /\ data' = r.data
           /\ lastCall' = Call("reset", s, i, r.ret)
           /\ saved' = r.saved
    /\ preAccept' = <<>>
    /\ UNCHANGED <<editor, pt, loop>>

Next ==
    \/ SetMetaData
    \/ \E ref \in Refs : AcceptCorrection(ref[1], ref[2])
    \/ \E ref \in Refs : RejectCorrection(ref[1], ref[2])
    \/ \E ref \in Refs : ResetCorrection(ref[1], ref[2])

\* the library used directly on a fresh job result
Spec == Init /\ [][Next]_vars

---------------------------------------------------------------------------
(* The editor's state machine *)

\* pt.interactiveEditor({data, ignoreNoReplacement})
InteractiveEditor(ignoreNoReplacement) ==
    /\ ~editor.open
    /\ \E r \in { interactiveEditor(data, ignoreNoReplacement) } :
           /\ data' = r.data
           /\ editor' = r.editor
    /\ lastCall' = Call("interactiveEditor", 0, 0, "none")
    /\ preAccept' = <<>>
    /\ saved' = <<>>
    /\ UNCHANGED <<pt, loop>>

\* editor.acceptCorrection(transform)
EditorAcceptCorrection(s, i) ==
    /\ editor.open
    /\ editor.transStackSize < MaxStack
    /\ \E r \in { acceptCorrection(data, s, i) } :
           /\ data' = r.data
           /\ lastCall' = EditorCall("accept", s, i, r.ret)
           /\ preAccept' = IF r.ret = "true" THEN sentenceOf(data, s, i).activeTokens ELSE <<>>
           /\ editor' = IF r.ret = "true" THEN pushed(editor, r.data, <<s, i>>) ELSE editor
           /\ saved' = r.saved
    /\ UNCHANGED <<pt, loop>>

\* editor.rejectCorrection(transform)
EditorRejectCorrection(s, i) ==
    /\ editor.open
    /\ editor.transStackSize < MaxStack
    /\ \E r \in { rejectCorrection(data, s, i) } :
           /\ data' = r.data
           /\ lastCall' = EditorCall("reject", s, i, r.ret)
           /\ editor' = IF r.ret = "true" THEN pushed(editor, r.data, <<s, i>>) ELSE editor
           /\ saved' = r.saved
    /\ preAccept' = <<>>
    /\ UNCHANGED <<pt, loop>>

\* editor.undoLastTransform()
UndoLastTransform ==
    /\ editor.open
    /\ IF editor.transStackSize > 0
       THEN \E lastTransform \in { editor.transformStack[editor.transStackSize] } :
            \E r \in { resetCorrection(data, lastTransform[1], lastTransform[2]) } :
                /\ data' = r.data
                /\ lastCall' = EditorCall("undoLast", lastTransform[1], lastTransform[2], r.ret)
                /\ editor' = IF r.ret = "true" THEN popped(editor, r.data) ELSE editor
                /\ saved' = r.saved
       ELSE /\ lastCall' = Call("undoLast", 0, 0, "false")
            /\ saved' = <<>>
            /\ UNCHANGED <<data, editor>>
    /\ preAccept' = <<>>
    /\ UNCHANGED <<pt, loop>>

NextEditor ==
    \/ \E b \in BOOLEAN : InteractiveEditor(b)
    \/ \E ref \in Refs : EditorAcceptCorrection(ref[1], ref[2])
    \/ \E ref \in Refs : EditorRejectCorrection(ref[1], ref[2])
    \/ UndoLastTransform

\* an editing session on a fresh job result
SpecEditor == Init /\ [][NextEditor]_vars

---------------------------------------------------------------------------
(* editor.applyAll, one iteration of its loop at a time *)

\* the transformations of ts, each marked as a suggestion or not
SuggestionLists(ts) ==
    { [k \in DOMAIN ts |-> [ts[k] EXCEPT !.isSuggestion = flags[k]]] :
        flags \in [DOMAIN ts -> BOOLEAN] }

\* the jobs of one sentence, with suggestions
SuggestionJobs ==
    UNION { { <<RawSentence(marked)>> : marked \in SuggestionLists(ts) } :
              ts \in UNION { TransformLists(k) : k \in 1..MaxTransforms } }

InitApply ==
    /\ data \in { [rulesApplied |-> job, hasMeta |-> FALSE] : job \in SuggestionJobs }
    /\ lastCall = NoCall
    /\ preAccept = <<>>
    /\ editor = ClosedEditor
    /\ pt = ModuleDefaults
    /\ saved = <<>>
    /\ loop = NoLoop

\* getNextNonSuggestion: the cached transformations that are not suggestions
nonSuggestions(e, d) ==
    LET required(ref) == ~transformAt(d, ref[1], ref[2]).isSuggestion
    IN  SelectSeq(e.allAvailableTransforms, required)

hasNextTransform(e, d, ignoreSuggestions) ==
    IF ignoreSuggestions THEN nonSuggestions(e, d) # <<>>
    ELSE Len(e.allAvailableTransforms) > 0

\* getNextTransform returning the first cached transformation whatever is asked
getNextTransformAny(e, d, ignoreSuggestions) == e.allAvailableTransforms[1]

\* only used where hasNextTransform holds
getNextTransform(e, d, ignoreSuggestions) ==
    IF ignoreSuggestions THEN Head(nonSuggestions(e, d))
    ELSE e.allAvailableTransforms[1]

Idle == loop.op = "none"

\* a single accept or reject is still followed
Manual == Idle /\ editor.transStackSize < MaxManual

\* editor.applyAll(ignoreSuggestions) is called
ApplyAll(ignoreSuggestions) ==
    /\ editor.open /\ Idle
    /\ loop' = [op |-> "applyAll", ignoreSuggestions |-> ignoreSuggestions, turn |-> 0]
    /\ lastCall' = Call("applyAll", 0, 0, "running")
    /\ preAccept' = <<>>
    /\ saved' = <<>>
    /\ UNCHANGED <<data, editor, pt>>

\* one iteration: editor.acceptCorrection(editor.getNextTransform(ignoreSuggestions))
ApplyAllStep ==
    /\ loop.op = "applyAll"
    /\ hasNextTransform(editor, data, loop.ignoreSuggestions)
    /\ \E next \in { getNextTransform(editor, data, loop.ignoreSuggestions) } :
       \E r \in { acceptCorrection(data, next[1], next[2]) } :
           /\ data' = r.data
           /\ editor' = IF r.ret = "true" THEN pushed(editor, r.data, next) ELSE editor
           /\ saved' = saved \o r.saved
    /\ loop' = [loop EXCEPT !.turn = 1 - @]
    /\ UNCHANGED <<lastCall, preAccept, pt>>

\* the loop condition is false: applyAll returns
ApplyAllReturn ==
    /\ loop.op = "applyAll"
    /\ ~hasNextTransform(editor, data, loop.ignoreSuggestions)
    /\ loop' = NoLoop
    /\ lastCall' = Call("applyAll", 0, 0, "none")
    /\ UNCHANGED <<data, editor, preAccept, pt, saved>>

NextApply ==
    \/ \E b \in BOOLEAN : InteractiveEditor(b)
    \/ \E ref \in Refs : Manual /\ EditorAcceptCorrection(ref[1], ref[2])
    \/ \E ref \in Refs : Manual /\ EditorRejectCorrection(ref[1], ref[2])
    \/ \E b \in BOOLEAN : ApplyAll(b)
    \/ ApplyAllStep
    \/ ApplyAllReturn

\* an editing session with applyAll, on a job with suggestions
SpecApply == InitApply /\ [][NextApply]_vars

\* the part of ApplyAllStep that moves the loop: under NextApply a step is an
\* ApplyAllIteration step exactly if it is an ApplyAllStep step
ApplyAllIteration ==
    /\ loop.op = "applyAll"
    /\ hasNextTransform(editor, data, loop.ignoreSuggestions)
    /\ loop' = [loop EXCEPT !.turn = 1 - @]

\* the loop of applyAll is not suspended: the engine is synchronous, a started
\* iteration is made and a false loop condition ends the call
SpecApplyFair == SpecApply /\ WF_loop(ApplyAllIteration) /\ WF_vars(ApplyAllReturn)

---------------------------------------------------------------------------
(* editor.undoAll *)

\* the members of the object interactiveEditor returns
EditorMembers ==
    {"getGrammarScore", "getData", "getUsage", "getTransform", "getSentence",
     "getSentenceFromTransform", "getAllAvailableTransforms", "hasNextTransform",
     "getNextTransform", "getOverlappingTransforms", "getCurrentText",
     "getCurrentSentenceText", "acceptCorrection", "rejectCorrection",
     "undoLastTransform", "canMakeTransform", "canUndoLastTransform",
     "getLastTransform", "getTransformOffset", "getSentenceOffset", "getAffectedText",
     "getAddedText", "getOriginalText", "getAllClean", "getNumSentences",
     "getNumTransformations", "applyAll", "undoAll", "getTransformDocumentOffset"}

\* the loop condition of undoAll, the expression editor.canUndoTransform: a member
\* that is a function is truthy, a member the object does not have is undefined
undoAllCondition == "canUndoTransform" \in EditorMembers

canUndoLastTransform(e, d) ==
    IF e.transStackSize > 0
    THEN LET lastTransform == e.transformStack[e.transStackSize]
         IN  canUndoTransform(sentenceOf(d, lastTransform[1], lastTransform[2]),
                              transformAt(d, lastTransform[1], lastTransform[2]))
    ELSE FALSE

\* editor.undoAll(): its loop condition is not truthy, the body is not entered
UndoAll ==
    /\ editor.open
    /\ ~undoAllCondition
    /\ lastCall' = Call("undoAll", 0, 0, "none")
    /\ preAccept' = <<>>
    /\ saved' = <<>>
    /\ UNCHANGED <<data, editor, pt, loop>>

NextUndoAll ==
    \/ \E b \in BOOLEAN : InteractiveEditor(b)
    \/ \E ref \in Refs : EditorAcceptCorrection(ref[1], ref[2])
    \/ \E ref \in Refs : EditorRejectCorrection(ref[1], ref[2])
    \/ UndoAll

\* an editing session in which the history is unwound with undoAll
SpecUndoAll == Init /\ [][NextUndoAll]_vars

---------------------------------------------------------------------------
(* The documented example: the sentence "hzve be befor" with the transformations
   hzve -> have, have be -> has been, befor -> before *)

ScenarioSentence ==
    [originalSentence |-> <<1, 2, 3>>, activeTokens |-> <<>>,
     transformations |-> << RawTransform(<<1>>, <<11>>, FALSE, ""),
                            RawTransform(<<11, 2>>, <<21, 22>>, FALSE, ""),
                            RawTransform(<<3>>, <<31>>, FALSE, "") >>,
     groups |-> <<>>, sentenceIndex |-> UNDEFINED]

InitScenario ==
    /\ data = [rulesApplied |-> <<ScenarioSentence>>, hasMeta |-> FALSE]
    /\ lastCall = NoCall
    /\ preAccept = <<>>
    /\ editor = ClosedEditor
    /\ pt = ModuleDefaults
    /\ saved = <<>>
    /\ loop = NoLoop

\* an editing session on the example
SpecScenario == InitScenario /\ [][NextEditor]_vars

---------------------------------------------------------------------------
(* The library with setMetaData called again on a result that has its metadata *)

\* pt.setMetaData(data) on a result with hasMeta = true: the function itself does not
\* look at hasMeta (only interactiveEditor does)
SetMetaDataAgain ==
    /\ data.hasMeta
    /\ data' = setMetaData(data)
    /\ lastCall' = Call("setMetaDataAgain", 0, 0, "none")
    /\ preAccept' = <<>>
    /\ saved' = <<>>
    /\ UNCHANGED <<editor, pt, loop>>

\* the session is followed up to the repeated setMetaData call
BeforeRepeat == lastCall.op # "setMetaDataAgain"

NextReinit ==
    \/ SetMetaData
    \/ \E ref \in Refs : BeforeRepeat /\ AcceptCorrection(ref[1], ref[2])
    \/ \E ref \in Refs : BeforeRepeat /\ RejectCorrection(ref[1], ref[2])
    \/ \E ref \in Refs : BeforeRepeat /\ ResetCorrection(ref[1], ref[2])
    \/ BeforeRepeat /\ SetMetaDataAgain

SpecReinit == Init /\ [][NextReinit]_vars

---------------------------------------------------------------------------
(* The client configured by the application, and the outcome of its requests *)

PersistJobs == UNION { Jobs(n, k) : <<n, k>> \in (1..MaxSentences) \X (1..MaxPersisted) }

InitPersist ==
    /\ data \in { [rulesApplied |-> job, hasMeta |-> FALSE] : job \in PersistJobs }
    /\ lastCall = NoCall
    /\ preAccept = <<>>
    /\ editor = ClosedEditor
    /\ pt = ModuleDefaults
    /\ saved = <<>>
    /\ loop = NoLoop

\* pt.initialize(config), called by the application before it uses a result
Initialize(config) ==
    /\ lastCall = NoCall
    /\ pt' = initialize(config)
    /\ lastCall' = Call("initialize", 0, 0, "none")
    /\ UNCHANGED <<data, preAccept, editor, saved, loop>>

\* the promise axios returned for the k-th request of the last call settles; nothing
\* holds a reference to it, and what the call returned to its caller stays what it was
PromiseSettles(k, outcome) ==
    /\ k \in DOMAIN saved
    /\ saved[k].promise = "pending"
    /\ saved' = [saved EXCEPT ![k].promise = outcome]
    /\ UNCHANGED <<data, lastCall, preAccept, editor, pt, loop>>

NextPersist ==
    \/ \E config \in Configs : Initialize(config)
    \/ SetMetaData
    \/ \E ref \in Refs : AcceptCorrection(ref[1], ref[2])
    \/ \E ref \in Refs : RejectCorrection(ref[1], ref[2])
    \/ \E ref \in Refs : ResetCorrection(ref[1], ref[2])
    \/ \E outcome \in {"resolved", "rejected"} : PromiseSettles(1, outcome)

\* the library used by an application that may have configured the client
SpecPersist == InitPersist /\ [][NextPersist]_vars

---------------------------------------------------------------------------
(* A result recovered with the statuses of an earlier session *)

\* the result of the job as the service returns it again: the statuses the earlier
\* session left are set, the metadata is not
recoveredResult(d) ==
    [rulesApplied |->
        [s \in DOMAIN d.rulesApplied |->
            RawSentence([i \in DOMAIN d.rulesApplied[s].transformations |->
                LET transform == d.rulesApplied[s].transformations[i]
                IN  RawTransform(transform.tokensAffected, transform.tokensAdded,
                                 transform.isSuggestion, transform.status)])],
     hasMeta |-> FALSE]

\* the session ends with some transformation accepted or rejected, and the application
\* fetches the job again
Recover ==
    /\ editor.open
    /\ \E ref \in Refs : ~isClean(transformAt(data, ref[1], ref[2]))
    /\ data' = recoveredResult(data)
    /\ editor' = ClosedEditor
    /\ lastCall' = Call("recover", 0, 0, "none")
    /\ preAccept' = <<>>
    /\ saved' = <<>>
    /\ UNCHANGED <<pt, loop>>

\* the result in hand is a recovered one
Recovered ==
    \/ lastCall.op = "recover"
    \/ lastCall.op = "interactiveEditor" /\ editor.transStackSize > 0

\* a first session, then the initialization of the recovered result
NextRecover ==
    \/ ~Recovered /\ NextEditor
    \/ Recover
    \/ \E b \in BOOLEAN : lastCall.op = "recover" /\ InteractiveEditor(b)

SpecRecover == Init /\ [][NextRecover]_vars

---------------------------------------------------------------------------
(* applyAll(false) on a fresh result *)

NextApplyClean ==
    \/ \E b \in BOOLEAN : InteractiveEditor(b)
    \/ ApplyAll(FALSE)
    \/ ApplyAllStep
    \/ ApplyAllReturn

\* a session in which only applyAll(false) changes the document
SpecApplyClean == Init /\ [][NextApplyClean]_vars

---------------------------------------------------------------------------
(* A session that makes its decisions first and then undoes them *)

Deciding == lastCall.op # "undoLast"

NextUnwind ==
    \/ \E b \in BOOLEAN : InteractiveEditor(b)
    \/ \E ref \in Refs : Deciding /\ EditorAcceptCorrection(ref[1], ref[2])
    \/ \E ref \in Refs : Deciding /\ EditorRejectCorrection(ref[1], ref[2])
    \/ UndoLastTransform

SpecUnwind == Init /\ [][NextUnwind]_vars

---------------------------------------------------------------------------
(* The token utilities on arbitrary runs *)

\* the sequences of at most n token ids
TokenSeqs(n) == UNION { [1..m -> 1..MaxTokenId] : m \in 0..n }

\* the token streams of a sentence: no id occurs twice
TokenStreams ==
    { st \in TokenSeqs(MaxStream) : \A a, b \in DOMAIN st : st[a] = st[b] => a = b }

\* a sentence whose activeTokens are stream, with one transformation that affects any
\* non-empty sequence of ids, present in the stream or not
UtilitySentence(stream, affected, added) ==
    [RawSentence(<<[RawTransform(affected, added, FALSE, TRANSFORM_STATUS_CLEAN)
                       EXCEPT !.sentenceIndex = 0, !.indexInSentence = 0,
                              !.transformIndex = 0, !.groupId = 0]>>)
        EXCEPT !.originalSentence = stream, !.activeTokens = stream,
               !.sentenceIndex = 0, !.groups = (0 :> <<1>>)]

InitTokens ==
    /\ data \in { [rulesApplied |-> <<UtilitySentence(stream, affected, added)>>,
                    hasMeta |-> TRUE] :
                      stream \in TokenStreams,
                      affected \in TokenSeqs(MaxRun) \ {<<>>},
                      added \in {<<>>, AddedIds(1, 1), AddedIds(1, 2)} }
    /\ lastCall = NoCall
    /\ preAccept = <<>>
    /\ editor = ClosedEditor
    /\ pt = ModuleDefaults
    /\ saved = <<>>
    /\ loop = NoLoop

\* replaceTokens(sentence.activeTokens, transform.tokensAffected, transform.tokensAdded)
\* while activeTokens is still the array of originalSentence, as setMetaData leaves it;
\* preAccept keeps the stream that was passed
ReplaceTokens ==
    /\ lastCall.op # "replaceTokens"
    /\ data.rulesApplied[1].activeTokens = data.rulesApplied[1].originalSentence
    /\ preAccept' = data.rulesApplied[1].activeTokens
    /\ data' = [data EXCEPT !.rulesApplied[1] =
                    spliceOnly(data.rulesApplied[1], transformAt(data, 1, 1).tokensAffected,
                               transformAt(data, 1, 1).tokensAdded)]
    /\ lastCall' = Call("replaceTokens", 1, 1, "none")
    /\ UNCHANGED <<editor, pt, saved, loop>>

\* pt.canMakeTransform(sentence, transform)
CanMakeTransform ==
    /\ lastCall.op # "canMakeTransform"
    /\ lastCall' = Call("canMakeTransform", 1, 1,
                        IF canMakeTransform(data.rulesApplied[1], transformAt(data, 1, 1))
                        THEN "true" ELSE "false")
    /\ UNCHANGED <<data, preAccept, editor, pt, saved, loop>>

NextTokens ==
    \/ ReplaceTokens
    \/ CanMakeTransform

SpecTokens == InitTokens /\ [][NextTokens]_vars

---------------------------------------------------------------------------
(* Properties *)

Sentences == DOMAIN data.rulesApplied

\* the tokensAffected run of transform lies in tokens at consecutive positions from p on
runAt(tokens, run, p) ==
    /\ p + Len(run) - 1 <= Len(tokens)
    /\ SubSeq(tokens, p, p + Len(run) - 1) = run

isPresentRun(run, tokens) == \E p \in 1..Len(tokens) : runAt(tokens, run, p)

\* C1: after initialization and after every accept, reject or undo, a clean
\* transformation's isAvailable flag equals whether its tokensAffected are a contiguous
\* run of its sentence's activeTokens
C1_CleanFlagIsFresh ==
    data.hasMeta =>
        \A ref \in Refs :
            LET transform == transformAt(data, ref[1], ref[2])
            IN  isClean(transform) =>
                    (transform.isAvailable <=>
                        isPresentRun(transform.tokensAffected,
                                     data.rulesApplied[ref[1]].activeTokens))

\* the original tokens with the accepted transformations that have a replacement
\* made in sentence order, from position k on
RECURSIVE replayAccepted(_, _, _)
replayAccepted(sentence, k, tokens) ==
    IF k > Len(sentence.transformations) THEN tokens
    ELSE LET transform == sentence.transformations[k]
             p == CHOOSE q \in 1..Len(tokens) : runAt(tokens, transform.tokensAffected, q)
         IN  replayAccepted(sentence, k + 1,
                 IF /\ isAccepted(transform) /\ transform.hasReplacement
                    /\ isPresentRun(transform.tokensAffected, tokens)
                 THEN SubSeq(tokens, 1, p - 1) \o transform.tokensAdded
                          \o SubSeq(tokens, p + Len(transform.tokensAffected), Len(tokens))
                 ELSE tokens)

\* C2: the text of every sentence is the text of its original tokens with exactly the
\* accepted transformations replayed in transformIndex order
C2_TextIsReplayOfAccepted ==
    data.hasMeta =>
        \A s \in Sentences :
            tokensToString(data.rulesApplied[s].activeTokens) =
                tokensToString(replayAccepted(data.rulesApplied[s], 1,
                                              data.rulesApplied[s].originalSentence))

sharesId(a1, a2) == \E x \in DOMAIN a1 : \E y \in DOMAIN a2 : a1[x] = a2[y]

\* C3: two transformations of a sentence whose tokensAffected share a token id have the
\* same groupId
C3_SharedAffectedSameGroup ==
    data.hasMeta =>
        \A s \in Sentences :
            \A i, j \in DOMAIN data.rulesApplied[s].transformations :
                LET ti == data.rulesApplied[s].transformations[i]
                    tj == data.rulesApplied[s].transformations[j]
                IN  sharesId(ti.tokensAffected, tj.tokensAffected) => ti.groupId = tj.groupId

\* C4: a later transformation whose tokensAffected contain a token an earlier one adds
\* is in the group of the earlier one
C4_DependentSameGroup ==
    data.hasMeta =>
        \A s \in Sentences :
            \A i, j \in DOMAIN data.rulesApplied[s].transformations :
                LET ti == data.rulesApplied[s].transformations[i]
                    tj == data.rulesApplied[s].transformations[j]
                IN  (i < j /\ sharesId(ti.tokensAdded, tj.tokensAffected))
                        => ti.groupId = tj.groupId

\* how often position i occurs in the sequence members
occurrences(members, i) == Cardinality({ x \in DOMAIN members : members[x] = i })

\* C5: every transformation has a groupId that names a group of its sentence, occurs
\* exactly once in that group and in no other group of the sentence
C5_GroupsPartition ==
    data.hasMeta =>
        \A s \in Sentences :
            LET sentence == data.rulesApplied[s]
            IN  \A i \in DOMAIN sentence.transformations :
                    /\ sentence.transformations[i].groupId \in DOMAIN sentence.groups
                    /\ \A g \in DOMAIN sentence.groups :
                           occurrences(sentence.groups[g], i) =
                               IF g = sentence.transformations[i].groupId THEN 1 ELSE 0

\* a sentence with a group of two transformations and a second group
C5_Witness ==
    /\ data.hasMeta
    /\ \E s \in Sentences :
           /\ Cardinality(DOMAIN data.rulesApplied[s].groups) >= 2
           /\ \E g \in DOMAIN data.rulesApplied[s].groups :
                  Len(data.rulesApplied[s].groups[g]) >= 2

\* C6: an accept of t that returned true, followed at once by resetCorrection of t: the
\* reset returns true, the sentence's activeTokens are those before the accept, t is
\* clean and available again
C6_AcceptThenUndoRestores ==
    [][(/\ lastCall.op = "accept" /\ lastCall.ret = "true"
        /\ lastCall'.op = "reset" /\ lastCall'.s = lastCall.s /\ lastCall'.i = lastCall.i)
          => /\ lastCall'.ret = "true"
             /\ data'.rulesApplied[lastCall.s].activeTokens = preAccept
             /\ isClean(transformAt(data', lastCall.s, lastCall.i))
             /\ transformAt(data', lastCall.s, lastCall.i).isAvailable]_vars

\* C7: setMetaData on a result that has hasMeta = true changes nothing
C7_SecondSetMetaDataIsNoOp ==
    [][lastCall'.op = "setMetaDataAgain" => data' = data]_vars

\* C8: no transformation is accepted and available at once
C8_AcceptedNotAvailable ==
    data.hasMeta =>
        \A ref \in Refs :
            ~(isAccepted(transformAt(data, ref[1], ref[2]))
                /\ transformAt(data, ref[1], ref[2]).isAvailable)

\* C9: a rejected transformation is not available, and is on the history stack once
C9_RejectedStaysDead ==
    editor.open =>
        \A ref \in Refs :
            isRejected(transformAt(data, ref[1], ref[2]))
                => /\ ~transformAt(data, ref[1], ref[2]).isAvailable
                   /\ occurrences(editor.transformStack, ref) = 1

\* C10: an accept that returned true on a transformation with a replacement found the
\* tokensAffected run in activeTokens and left tokensAdded in its place
C10_AcceptSplicesPresentRun ==
    (lastCall.op = "accept" /\ lastCall.ret = "true"
        /\ transformAt(data, lastCall.s, lastCall.i).hasReplacement)
    => LET transform == transformAt(data, lastCall.s, lastCall.i)
       IN  \E p \in 1..Len(preAccept) :
               /\ runAt(preAccept, transform.tokensAffected, p)
               /\ data.rulesApplied[lastCall.s].activeTokens =
                      SubSeq(preAccept, 1, p - 1) \o transform.tokensAdded
                          \o SubSeq(preAccept, p + Len(transform.tokensAffected),
                                    Len(preAccept))

\* C11: resetCorrection of a transformation whose status is clean returns false and
\* changes nothing, whether the transformation has a replacement or not
C11_CleanCannotBeUndone ==
    [][(lastCall'.op = "reset" /\ isClean(transformAt(data, lastCall'.s, lastCall'.i)))
          => (lastCall'.ret = "false" /\ data' = data /\ saved' = <<>>)]_vars

\* no shared affected token id, and neither one's tokensAdded shares an id with the
\* other's tokensAffected
doNotOverlap(t, u) ==
    /\ ~sharesId(t.tokensAffected, u.tokensAffected)
    /\ ~sharesId(t.tokensAdded, u.tokensAffected)
    /\ ~sharesId(u.tokensAdded, t.tokensAffected)

\* C12: a successful accept, reject or undo of a transformation leaves isAvailable of
\* every transformation of its sentence that does not overlap it unchanged
C12_NonOverlappingUntouched ==
    [][(lastCall'.op \in {"accept", "reject", "undoLast"} /\ lastCall'.ret = "true")
          => \A j \in DOMAIN data.rulesApplied[lastCall'.s].transformations :
                 doNotOverlap(transformAt(data, lastCall'.s, lastCall'.i),
                              transformAt(data, lastCall'.s, j))
                     => transformAt(data', lastCall'.s, j).isAvailable
                            = transformAt(data, lastCall'.s, j).isAvailable]_vars

\* C13: a reject leaves the activeTokens of every sentence, and the status and
\* isAvailable of every transformation but the rejected one, unchanged
C13_RejectFrame ==
    [][lastCall'.op = "reject"
          => /\ \A s \in Sentences :
                    data'.rulesApplied[s].activeTokens = data.rulesApplied[s].activeTokens
             /\ \A ref \in Refs :
                    ref # <<lastCall'.s, lastCall'.i>>
                        => /\ transformAt(data', ref[1], ref[2]).status
                                  = transformAt(data, ref[1], ref[2]).status
                           /\ transformAt(data', ref[1], ref[2]).isAvailable
                                  = transformAt(data, ref[1], ref[2]).isAvailable]_vars

\* a successful reject of a transformation whose group holds an accepted transformation
\* with its tokensAffected present
C13_Witness ==
    /\ editor.open /\ lastCall.op = "reject" /\ lastCall.ret = "true"
    /\ \E j \in DOMAIN data.rulesApplied[lastCall.s].transformations :
           LET sentence == data.rulesApplied[lastCall.s]
           IN  /\ j # lastCall.i
               /\ sentence.transformations[j].groupId
                      = sentence.transformations[lastCall.i].groupId
               /\ isAccepted(sentence.transformations[j])
               /\ ~sentence.transformations[j].isAvailable
               /\ canMakeTransform(sentence, sentence.transformations[j])

\* C14: an accept, reject or undo that returns false leaves the job result, the history
\* stack and the cached available list unchanged and issues no persistence call
C14_FalseMeansNoMutation ==
    [][lastCall'.ret = "false" => (data' = data /\ editor' = editor /\ saved' = <<>>)]_vars

\* an accept refused in an editor that has a history
C14_Witness ==
    /\ editor.open /\ editor.transStackSize > 0
    /\ lastCall.op = "accept" /\ lastCall.ret = "false"

\* the k-th transformation of the example sentence
scenarioTransform(k) == data.rulesApplied[1].transformations[k]

\* C15: in the example, initialization puts t1 and t2 in one group and t3 alone in
\* another, and sets t1.isAvailable = true, t2.isAvailable = false, t3.isAvailable = true
C15_ScenarioInitialization ==
    data.hasMeta =>
        /\ scenarioTransform(1).groupId = scenarioTransform(2).groupId
        /\ scenarioTransform(3).groupId # scenarioTransform(1).groupId
        /\ data.rulesApplied[1].groups[scenarioTransform(1).groupId] = <<1, 2>>
        /\ data.rulesApplied[1].groups[scenarioTransform(3).groupId] = <<3>>
        /\ lastCall.op = "interactiveEditor"
               => /\ scenarioTransform(1).isAvailable
                  /\ ~scenarioTransform(2).isAvailable
                  /\ scenarioTransform(3).isAvailable

\* the example just after its initialization
C15_Witness ==
    /\ data.hasMeta /\ lastCall.op = "interactiveEditor"
    /\ data.rulesApplied[1].activeTokens = <<1, 2, 3>>
    /\ getCurrentSentenceText(data.rulesApplied[1]) = "hzve be befor"

\* C16: in the example, t2 is available exactly while t1 is accepted and t2 is still
\* clean (so accepting t1 makes it available), and with t1, t2 and t3 accepted the
\* text of the sentence is "has been before"
C16_ScenarioDependency ==
    data.hasMeta =>
        /\ scenarioTransform(2).isAvailable
               <=> (isAccepted(scenarioTransform(1)) /\ isClean(scenarioTransform(2)))
        /\ (lastCall.op = "accept" /\ lastCall.ret = "true" /\ lastCall.i = 1)
               => scenarioTransform(2).isAvailable
        /\ (\A k \in 1..3 : isAccepted(scenarioTransform(k)))
               => getCurrentSentenceText(data.rulesApplied[1]) = "has been before"

\* t1, t2 and t3 accepted in this order
C16_Witness ==
    /\ editor.open /\ editor.transformStack = << <<1, 1>>, <<1, 2>>, <<1, 3>> >>
    /\ \A k \in 1..3 : isAccepted(scenarioTransform(k))
    /\ lastCall.op = "accept" /\ lastCall.ret = "true"

\* C17: while applyAll(true) executes, no transformation with isSuggestion = true changes
\* its status or is pushed on the history stack
C17_ApplyAllSkipsSuggestions ==
    [][(loop.op = "applyAll" /\ loop.ignoreSuggestions)
          => \A ref \in Refs :
                 transformAt(data, ref[1], ref[2]).isSuggestion
                     => /\ transformAt(data', ref[1], ref[2]).status
                               = transformAt(data, ref[1], ref[2]).status
                        /\ occurrences(editor'.transformStack, ref)
                               = occurrences(editor.transformStack, ref)]_vars

\* applyAll(true) has accepted a transformation and is about to return, with a clean
\* suggestion still in the cached available list
C17_Witness ==
    /\ loop.op = "applyAll" /\ loop.ignoreSuggestions /\ loop.turn = 1
    /\ ~hasNextTransform(editor, data, TRUE)
    /\ \E x \in DOMAIN editor.allAvailableTransforms :
           LET ref == editor.allAvailableTransforms[x]
           IN  /\ transformAt(data, ref[1], ref[2]).isSuggestion
               /\ isClean(transformAt(data, ref[1], ref[2]))

\* C18: applyAll terminates: a started accept loop ends
C18_ApplyAllTerminates == (loop.op = "applyAll") ~> (loop.op = "none")

\* the loop has made an iteration and has another to make, on a clean transformation
\* that affects a token an accepted transformation added
C18_Witness ==
    /\ loop.op = "applyAll" /\ loop.turn = 1
    /\ hasNextTransform(editor, data, loop.ignoreSuggestions)
    /\ LET next == getNextTransform(editor, data, loop.ignoreSuggestions)
       IN  /\ isClean(transformAt(data, next[1], next[2]))
           /\ \E j \in DOMAIN data.rulesApplied[next[1]].transformations :
                  /\ isAccepted(transformAt(data, next[1], j))
                  /\ sharesId(transformAt(data, next[1], j).tokensAdded,
                              transformAt(data, next[1], next[2]).tokensAffected)

\* C19: when undoAll returns, canUndoLastTransform() is false
C19_UndoAllUnwinds ==
    lastCall.op = "undoAll" => ~canUndoLastTransform(editor, data)

\* the total length of the texts of the sentences before sentence s
RECURSIVE textLengthBefore(_)
textLengthBefore(s) ==
    IF s <= 1 THEN 0
    ELSE textLengthBefore(s - 1) + Len(getCurrentSentenceText(data.rulesApplied[s - 1]))

\* C20: getSentenceOffset returns the integer that is the total length of the texts of
\* the sentences before the sentence, and getTransformDocumentOffset that integer plus
\* the offset of the transformation in its sentence
C20_SentenceOffsetIsPrefixSum ==
    data.hasMeta =>
        \A ref \in Refs :
            /\ getSentenceOffset(data, data.rulesApplied[ref[1]])
                   = JsNumber(textLengthBefore(ref[1]))
            /\ getTransformDocumentOffset(data, ref[1], ref[2])
                   = JsNumber(textLengthBefore(ref[1])
                                  + getTransformOffset(data, ref[1], ref[2]))

\* the number of characters the tokens render to: value and after of each
RECURSIVE renderedLength(_)
renderedLength(tokens) ==
    IF tokens = <<>> THEN 0
    ELSE Len(TokenValue(Head(tokens))) + Len(TokenAfter(Head(tokens)))
             + renderedLength(Tail(tokens))

\* C21: getTransformOffset returns -1 exactly when the tokensAffected of the
\* transformation are not a contiguous present run of its sentence's activeTokens, and
\* otherwise the rendered length of the active tokens before the first affected token
C21_TransformOffset ==
    data.hasMeta =>
        \A ref \in Refs :
            LET transform == transformAt(data, ref[1], ref[2])
                tokens == data.rulesApplied[ref[1]].activeTokens
                p == CHOOSE q \in 1..Len(tokens) : runAt(tokens, transform.tokensAffected, q)
            IN  getTransformOffset(data, ref[1], ref[2]) =
                    IF isPresentRun(transform.tokensAffected, tokens)
                    THEN renderedLength(SubSeq(tokens, 1, p - 1))
                    ELSE 0 - 1

\* after an accept, one transformation has no offset and another starts behind a token
\* that is followed by white space
C21_Witness ==
    /\ data.hasMeta
    /\ lastCall.op = "accept"
    /\ lastCall.ret = "true"
    /\ \E ref \in Refs : getTransformOffset(data, ref[1], ref[2]) = 0 - 1
    /\ \E ref \in Refs :
           /\ getTransformOffset(data, ref[1], ref[2]) > 0
           /\ getTransformOffset(data, ref[1], ref[2])
                  # getTransformOffsetHelperValuesOnly(transformAt(data, ref[1], ref[2]),
                                                       data.rulesApplied[ref[1]].activeTokens)

\* C22: a status request is submitted exactly once by every accept, reject or undo that
\* returns true while persistence is enabled, never by one that returns false or while
\* persistence is disabled, and it carries the new status of the transformation, its
\* sentenceIndex and its indexInSentence
C22_PersistOncePerSuccess ==
    lastCall.op \in {"accept", "reject", "reset"} =>
        IF lastCall.ret = "true" /\ canPersist
        THEN /\ Len(saved) = 1
             /\ saved[1].endPoint = "/updateStatus"
             /\ saved[1].payload.status =
                    (CASE lastCall.op = "accept" -> TRANSFORM_STATUS_ACCEPTED
                       [] lastCall.op = "reject" -> TRANSFORM_STATUS_REJECTED
                       [] lastCall.op = "reset" -> TRANSFORM_STATUS_CLEAN)
             /\ saved[1].payload.status = transformAt(data, lastCall.s, lastCall.i).status
             /\ saved[1].payload.sentenceIndex = lastCall.s - 1
             /\ saved[1].payload.transformIndex = lastCall.i - 1
        ELSE saved = <<>>

\* an undo of the first transformation of the second sentence has been persisted
C22_Witness ==
    /\ lastCall = Call("reset", 2, 1, "true")
    /\ canPersist
    /\ Len(saved) = 1
    /\ saved[1].payload.sentenceIndex = 1

\* a successful reject with persistence switched off by the configuration
C22_WitnessDisabled ==
    /\ lastCall.op = "reject"
    /\ lastCall.ret = "true"
    /\ "persist" \in DOMAIN pt
    /\ ~pt.persist
    /\ saved = <<>>

\* C23: a status request that fails is reported to the caller of the operation, as a
\* rejected promise or an error, and the state change of the operation is kept
C23_FailedSaveIsReported ==
    (\E k \in DOMAIN saved : saved[k].promise = "rejected") =>
        /\ lastCall.ret \in {"rejected promise", "throw"}
        /\ transformAt(data, lastCall.s, lastCall.i).status = saved[1].payload.status

\* C24: after initialize(config) with persist omitted persistence is enabled: a
\* successful accept submits a status request
C24_PersistDefaultsToTrue ==
    (/\ "persist" \notin DOMAIN pt
     /\ lastCall.op = "accept"
     /\ lastCall.ret = "true") => Len(saved) = 1

\* C25: the initialization of a recovered result leaves the activeTokens of every
\* sentence equal to its originalSentence with exactly the accepted transformations
\* that have a replacement applied in sentence order, and the history stack of the
\* editor holds exactly the transformations that are not clean, in transformIndex order
C25_RecoveredInitialization ==
    (lastCall.op = "interactiveEditor" /\ Recovered) =>
        /\ \A s \in Sentences :
               data.rulesApplied[s].activeTokens =
                   replayAccepted(data.rulesApplied[s], 1, data.rulesApplied[s].originalSentence)
        /\ editor.transStackSize = Len(editor.transformStack)
        /\ { editor.transformStack[k] : k \in DOMAIN editor.transformStack }
               = { ref \in Refs : ~isClean(transformAt(data, ref[1], ref[2])) }
        /\ \A k \in 1..(Len(editor.transformStack) - 1) :
               transformAt(data, editor.transformStack[k][1],
                           editor.transformStack[k][2]).transformIndex
                 < transformAt(data, editor.transformStack[k + 1][1],
                               editor.transformStack[k + 1][2]).transformIndex

\* a recovered result with an accepted and a rejected replacement has been initialized
C25_Witness ==
    /\ lastCall.op = "interactiveEditor"
    /\ editor.transStackSize >= 2
    /\ \E ref \in Refs :
           /\ isAccepted(transformAt(data, ref[1], ref[2]))
           /\ transformAt(data, ref[1], ref[2]).hasReplacement
           /\ data.rulesApplied[ref[1]].activeTokens
                  # data.rulesApplied[ref[1]].originalSentence
    /\ \E ref \in Refs :
           /\ isRejected(transformAt(data, ref[1], ref[2]))
           /\ transformAt(data, ref[1], ref[2]).hasReplacement

\* the number of transformations before the one at ref in the flattened list
flatPosition(ref) ==
    Cardinality({ r \in Refs : r[1] < ref[1] \/ (r[1] = ref[1] /\ r[2] < ref[2]) })

\* C26: initialization gives the i-th transformation of the flattened list the
\* transformIndex i (from 0), and every transformation its position in its sentence as
\* indexInSentence and the position of its sentence as sentenceIndex; no accept, reject
\* or undo changes the groupId, sentenceIndex, indexInSentence or transformIndex of a
\* transformation
C26_IndicesAssignedAndStable ==
    [][/\ data'.hasMeta =>
              \A ref \in Refs :
                  LET transform == transformAt(data', ref[1], ref[2])
                  IN  /\ transform.transformIndex = flatPosition(ref)
                      /\ transform.indexInSentence = ref[2] - 1
                      /\ transform.sentenceIndex = ref[1] - 1
       /\ data.hasMeta =>
              \A ref \in Refs :
                  LET before == transformAt(data, ref[1], ref[2])
                      after == transformAt(data', ref[1], ref[2])
                  IN  /\ after.groupId = before.groupId
                      /\ after.sentenceIndex = before.sentenceIndex
                      /\ after.indexInSentence = before.indexInSentence
                      /\ after.transformIndex = before.transformIndex]_vars

\* the first transformation of the second sentence, the third of the document, has
\* been accepted and reset
C26_Witness ==
    /\ lastCall = Call("reset", 2, 1, "true")
    /\ transformAt(data, 2, 1).transformIndex = 2
    /\ transformAt(data, 2, 1).indexInSentence = 0
    /\ transformAt(data, 2, 1).sentenceIndex = 1

\* C27: after applyAll(false) on an all-clean document no clean transformation remains
\* applicable: none has tokensAffected that are a contiguous present run of the
\* activeTokens of its sentence
C27_ApplyAllLeavesNothingApplicable ==
    lastCall = Call("applyAll", 0, 0, "none") =>
        \A ref \in Refs :
            isClean(transformAt(data, ref[1], ref[2])) =>
                ~isPresentRun(transformAt(data, ref[1], ref[2]).tokensAffected,
                              data.rulesApplied[ref[1]].activeTokens)

\* C28: the history unwinds completely: after the successful accepts and rejects of a
\* session on an initialized all-clean document, consecutive calls of undoLastTransform
\* return true as long as the stack is not empty, and with the stack empty every
\* activeTokens is the originalSentence again and every transformation is clean
C28_HistoryUnwinds ==
    lastCall.op = "undoLast" =>
        /\ lastCall.ret = "false" => editor.transStackSize = 0
        /\ editor.transStackSize = 0 =>
               /\ editor.transformStack = <<>>
               /\ \A s \in Sentences :
                      data.rulesApplied[s].activeTokens = data.rulesApplied[s].originalSentence
               /\ \A ref \in Refs : isClean(transformAt(data, ref[1], ref[2]))

\* C29: the history stack holds exactly the transformations that are accepted or
\* rejected, each of them once, and transStackSize is the number of transformations
\* that are not clean
C29_StackIsTheDecided ==
    editor.open =>
        /\ \A ref \in Refs :
               occurrences(editor.transformStack, ref) =
                   IF isClean(transformAt(data, ref[1], ref[2])) THEN 0 ELSE 1
        /\ editor.transStackSize =
               Cardinality({ ref \in Refs : ~isClean(transformAt(data, ref[1], ref[2])) })

\* C30: after every accept, reject and undo of the editor, successful or not, the
\* cached list of available transformations is the flattened list filtered by
\* isAvailable, and by hasReplacement when ignoreNoReplacement is set, in transformIndex
\* order
C30_CacheIsFiltered ==
    editor.open =>
        /\ \A ref \in Refs :
               occurrences(editor.allAvailableTransforms, ref) =
                   IF /\ transformAt(data, ref[1], ref[2]).isAvailable
                      /\ (editor.ignoreNoReplacement
                              => transformAt(data, ref[1], ref[2]).hasReplacement)
                   THEN 1 ELSE 0
        /\ \A k \in 1..(Len(editor.allAvailableTransforms) - 1) :
               transformAt(data, editor.allAvailableTransforms[k][1],
                           editor.allAvailableTransforms[k][2]).transformIndex
                 < transformAt(data, editor.allAvailableTransforms[k + 1][1],
                               editor.allAvailableTransforms[k + 1][2]).transformIndex

\* an undo has returned false on a stack that is not empty, with ignoreNoReplacement set
\* and an available transformation without replacement left out of a cache of two
C30_Witness ==
    /\ editor.open /\ editor.ignoreNoReplacement
    /\ lastCall = Call("undoLast", 0, 0, "false")
    /\ editor.transStackSize > 0
    /\ Len(editor.allAvailableTransforms) = 2
    /\ \E ref \in Refs :
           /\ transformAt(data, ref[1], ref[2]).isAvailable
           /\ ~transformAt(data, ref[1], ref[2]).hasReplacement

\* the transformation of candidates with the smallest transformIndex
firstByIndex(candidates) ==
    CHOOSE ref \in candidates :
        \A other \in candidates :
            transformAt(data, ref[1], ref[2]).transformIndex
                <= transformAt(data, other[1], other[2]).transformIndex

\* the transformations with isAvailable set, without the suggestions if asked
availableOnes(ignoreSuggestions) ==
    { ref \in Refs :
        /\ transformAt(data, ref[1], ref[2]).isAvailable
        /\ (ignoreSuggestions => ~transformAt(data, ref[1], ref[2]).isSuggestion) }

\* the transformations the editor offers: those of availableOnes, and only the ones
\* with a replacement when the editor was created with ignoreNoReplacement
offeredOnes(ignoreSuggestions) ==
    { ref \in availableOnes(ignoreSuggestions) :
        editor.ignoreNoReplacement => transformAt(data, ref[1], ref[2]).hasReplacement }

\* C31: getNextTransform(false) returns the available transformation with the smallest
\* transformIndex, getNextTransform(true) the one with the smallest transformIndex
\* among the available transformations with isSuggestion false, and hasNextTransform(x)
\* is true exactly when getNextTransform(x) returns a transformation
C31_NextIsSmallestAvailable ==
    editor.open =>
        \A x \in BOOLEAN :
            /\ hasNextTransform(editor, data, x) <=> availableOnes(x) # {}
            /\ hasNextTransform(editor, data, x) /\ availableOnes(x) # {} =>
                   getNextTransform(editor, data, x) = firstByIndex(availableOnes(x))

\* C31 amended: the same of the transformations the editor offers, which leave out the
\* transformations without a replacement when the editor was created with
\* ignoreNoReplacement
C31_NextIsSmallestOffered ==
    editor.open =>
        \A x \in BOOLEAN :
            /\ hasNextTransform(editor, data, x) <=> offeredOnes(x) # {}
            /\ hasNextTransform(editor, data, x) =>
                   getNextTransform(editor, data, x) = firstByIndex(offeredOnes(x))

\* the editor offers a suggestion first and a transformation that is not a suggestion
\* behind it, and leaves out an available one without replacement
C31_Witness ==
    /\ editor.open /\ editor.ignoreNoReplacement
    /\ hasNextTransform(editor, data, TRUE)
    /\ getNextTransform(editor, data, TRUE) # getNextTransform(editor, data, FALSE)
    /\ availableOnes(FALSE) # offeredOnes(FALSE)

\* the position of id in tokens; ids occur once in a stream
positionOf(tokens, id) == CHOOSE p \in DOMAIN tokens : tokens[p] = id

\* C32: replaceTokens returns the stream unchanged when removeRun is not a contiguous
\* present run, and otherwise the tokens before the first id of removeRun, followed by
\* insertRun, followed by the tokens after the last id of removeRun; the array that was
\* passed, which originalSentence still refers to, is as it was
C32_ReplaceTokens ==
    lastCall.op = "replaceTokens" =>
        LET stream == preAccept
            removeRun == transformAt(data, 1, 1).tokensAffected
            insertRun == transformAt(data, 1, 1).tokensAdded
            result == data.rulesApplied[1].activeTokens
        IN  /\ data.rulesApplied[1].originalSentence = stream
            /\ IF isPresentRun(removeRun, stream)
               THEN result =
                        SubSeq(stream, 1, positionOf(stream, removeRun[1]) - 1)
                            \o insertRun
                            \o SubSeq(stream,
                                      positionOf(stream, removeRun[Len(removeRun)]) + 1,
                                      Len(stream))
               ELSE result = stream

\* a run of two tokens in the middle of a stream of three has been replaced by two
\* tokens, the tokens around it staying
C32_Witness ==
    /\ lastCall.op = "replaceTokens"
    /\ Len(preAccept) = 3
    /\ transformAt(data, 1, 1).tokensAffected = SubSeq(preAccept, 2, 3)
    /\ data.rulesApplied[1].activeTokens = <<preAccept[1]>> \o AddedIds(1, 2)

\* C33: tokensArePresent(subsequence, stream) is true exactly when the ids of
\* subsequence occur in stream at consecutive positions in the same order
C33_TokensArePresent ==
    lastCall.op = "canMakeTransform" =>
        (lastCall.ret = "true" <=>
            isPresentRun(transformAt(data, 1, 1).tokensAffected,
                         data.rulesApplied[1].activeTokens))

\* canMakeTransform has returned false for two ids that are in the stream in this
\* order with another token between them
C33_Witness ==
    /\ lastCall = Call("canMakeTransform", 1, 1, "false")
    /\ Len(data.rulesApplied[1].activeTokens) = 3
    /\ transformAt(data, 1, 1).tokensAffected
           = <<data.rulesApplied[1].activeTokens[1], data.rulesApplied[1].activeTokens[3]>>

\* the transformations at positions a and b of ts overlap: they share an affected token
\* id, or the earlier one adds a token the later one affects
overlapPair(ts, a, b) ==
    /\ a # b
    /\ LET earlier == IF a < b THEN ts[a] ELSE ts[b]
           later == IF a < b THEN ts[b] ELSE ts[a]
       IN  \/ sharesId(earlier.tokensAffected, later.tokensAffected)
           \/ sharesId(earlier.tokensAdded, later.tokensAffected)

\* the positions a chain of overlapping transformations of ts reaches from linked
RECURSIVE chained(_, _)
chained(ts, linked) ==
    LET next == linked \cup { k \in DOMAIN ts : \E m \in linked : overlapPair(ts, m, k) }
    IN  IF next = linked THEN linked ELSE chained(ts, next)

\* C34: grouping adds no spurious members: two transformations of a sentence with the
\* same groupId are linked by a chain of transformations of that sentence in which each
\* consecutive pair overlaps, and the members of a group of a sentence are
\* transformations of that sentence
C34_NoSpuriousMembers ==
    data.hasMeta =>
        \A s \in Sentences :
            LET sentence == data.rulesApplied[s]
                ts == sentence.transformations
            IN  /\ \A i, j \in DOMAIN ts :
                       ts[i].groupId = ts[j].groupId => j \in chained(ts, {i})
                /\ \A g \in DOMAIN sentence.groups :
                       \A x \in DOMAIN sentence.groups[g] :
                           /\ sentence.groups[g][x] \in DOMAIN ts
                           /\ ts[sentence.groups[g][x]].sentenceIndex = s - 1
                           /\ ts[sentence.groups[g][x]].groupId = g

\* a group whose first and third transformation do not overlap each other and are
\* linked through the second
C34_Witness ==
    /\ data.hasMeta
    /\ \E s \in Sentences :
           LET ts == data.rulesApplied[s].transformations
           IN  /\ Len(ts) = 3
               /\ ts[1].groupId = ts[3].groupId
               /\ ~overlapPair(ts, 1, 3)
               /\ overlapPair(ts, 1, 2)
               /\ overlapPair(ts, 2, 3)

====
